---------------------------- MODULE Spec2Model ----------------------------
(***************************************************************************)
(* A model of the credential-pool state layer of antigravity2api-nodejs:   *)
(*                                                                         *)
(*   - TokenCooldownManager (src/src/auth/token_cooldown_manager.js),      *)
(*   - the signature cache  (src/unnamed/part_000),                        *)
(*   - TokenStore           (src/unnamed/part_001).                        *)
(*                                                                         *)
(* Strings the code inspects (model ids) are sequences of atoms: an atom   *)
(* is a literal piece of text. The atoms are chosen so that every pattern  *)
(* the code searches for is a whole number of atoms and no pattern starts  *)
(* or ends inside an atom, so substring search on the text is contiguous-  *)
(* subsequence search on the atoms. The empty sequence is the empty or     *)
(* absent string (both are falsy in the code).                             *)
(*                                                                         *)
(* Time is a counter of clock ticks; Date.now() is the variable now.       *)
(***************************************************************************)
EXTENDS Integers, Sequences, FiniteSets, TLC

VARIABLES
    now,            \* Date.now()
    cooldowns,      \* TokenCooldownManager.cooldowns (the in-memory Map)
    cdFile,         \* the "cooldowns" object of token_cooldowns.json
    config,         \* the signature cache's config object (its four flags)
    sigFiles,       \* data/signature-cache/<modelKey>.json, per model key
    accountsFile,   \* accounts.json, the document of TokenStore
    cache,          \* TokenStore._cache
    cacheTime,      \* TokenStore._cacheTime
    salt,           \* TokenStore._salt
    saltCount,      \* how many values generateSalt has returned
    calls,          \* the TokenStore calls in flight, per slot
    committed       \* the records of the last writeAll that completed with
                    \* no other writer in flight and no write started since

cdVars == <<now, cooldowns, cdFile>>

sigVars == <<config, sigFiles>>

storeVars ==
    <<accountsFile, cache, cacheTime, salt, saltCount, calls, committed>>

vars ==
    <<now, cooldowns, cdFile, config, sigFiles,
      accountsFile, cache, cacheTime, salt, saltCount, calls, committed>>

\* The variables of the other components, per component.
notCooldown ==
    <<config, sigFiles,
      accountsFile, cache, cacheTime, salt, saltCount, calls, committed>>

notSig ==
    <<now, cooldowns, cdFile,
      accountsFile, cache, cacheTime, salt, saltCount, calls, committed>>

notStore == <<cooldowns, cdFile, config, sigFiles>>

(***************************************************************************)
(* Bounds of the model.                                                    *)
(***************************************************************************)
MaxTime == 2

StartTime == 1

(***************************************************************************)
(* Strings as sequences of atoms.                                          *)
(***************************************************************************)
\* String.prototype.toLowerCase on one atom.
LowerAtom(a) ==
    CASE a = "CLAUDE" -> "claude"
      [] a = "Gemini" -> "gemini"
      [] a = "Image"  -> "image"
      [] a = "-1K"    -> "-1k"
      [] a = "-2K"    -> "-2k"
      [] a = "-4K"    -> "-4k"
      [] a = "-8K"    -> "-8k"
      [] OTHER        -> a

toLowerCase(s) == [i \in 1..Len(s) |-> LowerAtom(s[i])]

\* String.prototype.includes: p occurs in s as a contiguous run.
includes(s, p) ==
    \E i \in 0..(Len(s) - Len(p)) : SubSeq(s, i + 1, i + Len(p)) = p

(***************************************************************************)
(* TokenCooldownManager.                                                   *)
(*                                                                         *)
(* The Map is a function on the credential ids. A credential's value is a  *)
(* record: has says whether the Map holds the key, g is its groups object  *)
(* (all 0 when the key is not held). A group's value is 0 when the entry   *)
(* is null or the key is missing (the code reads both as falsy and never   *)
(* tells them apart), and u > 0 for {until: u}. The document on disk has   *)
(* the same shape.                                                         *)
(***************************************************************************)
MODEL_GROUPS == {"claude", "gemini", "banana", "other"}

\* Credential ids; "" is the absent (falsy) id.
TokenIds == {"t1", "t2"}

NoToken == ""

NoGroups == [has |-> FALSE, g |-> [k \in MODEL_GROUPS |-> 0]]

EmptyGroups == [has |-> TRUE, g |-> [k \in MODEL_GROUPS |-> 0]]

\* getGroupKey with the order of its checks changed (generic gemini first).
getGroupKeyGeminiFirst(modelId) ==
    IF modelId = <<>> THEN "other"
    ELSE LET lower == toLowerCase(modelId) IN
         IF includes(lower, <<"claude">>) THEN "claude"
         ELSE IF includes(lower, <<"gemini">>)
                 \/ includes(lower, <<"publishers/google/">>) THEN "gemini"
         ELSE IF includes(lower, <<"gemini", "-3-pro-", "image">>) THEN "banana"
         ELSE "other"

getGroupKey(modelId) ==
    IF modelId = <<>> THEN "other"
    ELSE LET lower == toLowerCase(modelId) IN
         IF includes(lower, <<"claude">>) THEN "claude"
         ELSE IF includes(lower, <<"gemini", "-3-pro-", "image">>) THEN "banana"
         ELSE IF includes(lower, <<"gemini">>)
                 \/ includes(lower, <<"publishers/google/">>) THEN "gemini"
         ELSE "other"

\* Model ids the callers pass.
CooldownModelIds ==
    { <<"claude", "-3-opus">>,
      <<"gemini", "-pro">>,
      <<"Gemini", "-3-pro-", "Image">>,
      <<"publishers/google/", "text-bison">> }

\* getGroupKey on the model ids the callers pass, tabulated.
groupKeyOf == [m \in CooldownModelIds |-> getGroupKey(m)]

\* saveToFile keeping the entries with until >= t.
SavedDocInclusive(cd, t) ==
    [id \in TokenIds |->
        LET valid == [k \in MODEL_GROUPS |->
                        IF cd[id].g[k] >= t THEN cd[id].g[k] ELSE 0]
        IN IF cd[id].has /\ (\E k \in MODEL_GROUPS : valid[k] > 0)
           THEN [has |-> TRUE, g |-> valid]
           ELSE NoGroups]

\* The document saveToFile writes at time t: per credential the entries with
\* until > t, and no credential without such an entry.
SavedDoc(cd, t) ==
    [id \in TokenIds |->
        LET valid == [k \in MODEL_GROUPS |->
                        IF cd[id].g[k] > t THEN cd[id].g[k] ELSE 0]
        IN IF cd[id].has /\ (\E k \in MODEL_GROUPS : valid[k] > 0)
           THEN [has |-> TRUE, g |-> valid]
           ELSE NoGroups]

\* saveToFile. (A failing write is caught and logged and leaves the document
\* as it was; the model's writes succeed.)
saveToFile(cd, t) == cdFile' = SavedDoc(cd, t)

\* _cleanupExpired's sweep at time t: every entry with until <= t becomes null.
Swept(cd, t) ==
    [id \in TokenIds |->
        [cd[id] EXCEPT !.g = [k \in MODEL_GROUPS |->
                                IF cd[id].g[k] > 0 /\ cd[id].g[k] <= t
                                THEN 0 ELSE cd[id].g[k]]]]

\* loadFromFile's Map: every credential of the document.
Loaded(doc) == [id \in TokenIds |-> doc[id]]

\* Documents a previous run can have left on disk.
InitialDocs ==
    { [id \in TokenIds |-> NoGroups],
      [id \in TokenIds |->
          IF id = "t1"
          THEN [has |-> TRUE,
                g |-> [k \in MODEL_GROUPS |->
                         IF k = "claude" THEN 1 ELSE IF k = "gemini" THEN 2 ELSE 0]]
          ELSE NoGroups] }

\* The constructor: ensureFileExists, loadFromFile, _cleanupExpired.
CooldownInit ==
    /\ now = StartTime
    /\ \E doc \in InitialDocs :
         /\ cooldowns = Swept(Loaded(doc), StartTime)
         /\ cdFile = IF Swept(Loaded(doc), StartTime) # Loaded(doc)
                     THEN SavedDoc(Swept(Loaded(doc), StartTime), StartTime)
                     ELSE doc

\* The latest deadline a caller passes.
MaxUntil == 3

\* Deadlines the callers pass; 0 is the absent (falsy) deadline.
Untils == 0..MaxUntil

\* setCooldown that never shortens a cooldown: keeps the later deadline.
setCooldownKeepsLater(tokenId, modelId, untilTimestamp) ==
    IF tokenId = NoToken \/ untilTimestamp = 0
    THEN UNCHANGED <<cooldowns, cdFile>>
    ELSE /\ cooldowns' = [cooldowns EXCEPT ![tokenId] =
                [has |-> TRUE,
                 g |-> [@.g EXCEPT ![groupKeyOf[modelId]] =
                          IF @ > untilTimestamp THEN @ ELSE untilTimestamp]]]
         /\ saveToFile(cooldowns', now)

\* setCooldown without its guard on the deadline's group: writes every group.
setCooldownAllGroups(tokenId, modelId, untilTimestamp) ==
    IF tokenId = NoToken \/ untilTimestamp = 0
    THEN UNCHANGED <<cooldowns, cdFile>>
    ELSE /\ cooldowns' = [cooldowns EXCEPT ![tokenId] =
                [has |-> TRUE, g |-> [k \in MODEL_GROUPS |-> untilTimestamp]]]
         /\ saveToFile(cooldowns', now)

\* setCooldown without the save.
setCooldownNoSave(tokenId, modelId, untilTimestamp) ==
    IF tokenId = NoToken \/ untilTimestamp = 0
    THEN UNCHANGED <<cooldowns, cdFile>>
    ELSE /\ cooldowns' = [cooldowns EXCEPT ![tokenId] =
                [has |-> TRUE,
                 g |-> [@.g EXCEPT ![groupKeyOf[modelId]] = untilTimestamp]]]
         /\ UNCHANGED cdFile

setCooldown(tokenId, modelId, untilTimestamp) ==
    IF tokenId = NoToken \/ untilTimestamp = 0
    THEN UNCHANGED <<cooldowns, cdFile>>
    ELSE /\ cooldowns' = [cooldowns EXCEPT ![tokenId] =
                [has |-> TRUE,
                 g |-> [@.g EXCEPT ![groupKeyOf[modelId]] = untilTimestamp]]]
         /\ saveToFile(cooldowns', now)

\* What isAvailable returns in the current state, with expiry at until < now.
isAvailableRetLate(tokenId, modelId) ==
    IF tokenId = NoToken THEN TRUE
    ELSE IF ~cooldowns[tokenId].has THEN TRUE
    ELSE LET until == cooldowns[tokenId].g[groupKeyOf[modelId]] IN
         IF until = 0 THEN TRUE
         ELSE until < now

\* What isAvailable returns in the current state.
isAvailableRet(tokenId, modelId) ==
    IF tokenId = NoToken THEN TRUE
    ELSE IF ~cooldowns[tokenId].has THEN TRUE
    ELSE LET until == cooldowns[tokenId].g[groupKeyOf[modelId]] IN
         IF until = 0 THEN TRUE
         ELSE until <= now

\* isAvailable that nulls an expired entry in memory only.
isAvailableNoSave(tokenId, modelId) ==
    IF tokenId = NoToken THEN UNCHANGED <<cooldowns, cdFile>>
    ELSE IF ~cooldowns[tokenId].has THEN UNCHANGED <<cooldowns, cdFile>>
    ELSE LET groupKey == groupKeyOf[modelId]
             until == cooldowns[tokenId].g[groupKey] IN
         IF until = 0 THEN UNCHANGED <<cooldowns, cdFile>>
         ELSE IF until <= now
         THEN /\ cooldowns' = [cooldowns EXCEPT ![tokenId].g[groupKey] = 0]
              /\ UNCHANGED cdFile
         ELSE UNCHANGED <<cooldowns, cdFile>>

\* isAvailable's effect: an expired entry is set to null and the document
\* is saved.
isAvailable(tokenId, modelId) ==
    IF tokenId = NoToken THEN UNCHANGED <<cooldowns, cdFile>>
    ELSE IF ~cooldowns[tokenId].has THEN UNCHANGED <<cooldowns, cdFile>>
    ELSE LET groupKey == groupKeyOf[modelId]
             until == cooldowns[tokenId].g[groupKey] IN
         IF until = 0 THEN UNCHANGED <<cooldowns, cdFile>>
         ELSE IF until <= now
         THEN /\ cooldowns' = [cooldowns EXCEPT ![tokenId].g[groupKey] = 0]
              /\ saveToFile(cooldowns', now)
         ELSE UNCHANGED <<cooldowns, cdFile>>

\* getCooldownUntil that still reports a deadline equal to the current time.
getCooldownUntilInclusive(tokenId, modelId) ==
    IF tokenId = NoToken THEN 0
    ELSE IF ~cooldowns[tokenId].has THEN 0
    ELSE LET until == cooldowns[tokenId].g[groupKeyOf[modelId]] IN
         IF until = 0 THEN 0
         ELSE IF until < now THEN 0
         ELSE until

\* What getCooldownUntil returns in the current state; 0 is null.
getCooldownUntil(tokenId, modelId) ==
    IF tokenId = NoToken THEN 0
    ELSE IF ~cooldowns[tokenId].has THEN 0
    ELSE LET until == cooldowns[tokenId].g[groupKeyOf[modelId]] IN
         IF until = 0 THEN 0
         ELSE IF until <= now THEN 0
         ELSE until

\* clearCooldown that drops the credential's whole groups object.
clearCooldownWholeCredential(tokenId, modelId) ==
    IF tokenId = NoToken THEN UNCHANGED <<cooldowns, cdFile>>
    ELSE IF ~cooldowns[tokenId].has THEN UNCHANGED <<cooldowns, cdFile>>
    ELSE IF cooldowns[tokenId].g[groupKeyOf[modelId]] > 0
         THEN /\ cooldowns' = [cooldowns EXCEPT ![tokenId] = EmptyGroups]
              /\ saveToFile(cooldowns', now)
         ELSE UNCHANGED <<cooldowns, cdFile>>

clearCooldown(tokenId, modelId) ==
    IF tokenId = NoToken THEN UNCHANGED <<cooldowns, cdFile>>
    ELSE IF ~cooldowns[tokenId].has THEN UNCHANGED <<cooldowns, cdFile>>
    ELSE LET groupKey == groupKeyOf[modelId] IN
         IF cooldowns[tokenId].g[groupKey] > 0
         THEN /\ cooldowns' = [cooldowns EXCEPT ![tokenId].g[groupKey] = 0]
              /\ saveToFile(cooldowns', now)
         ELSE UNCHANGED <<cooldowns, cdFile>>

\* clearAllCooldowns without the save.
clearAllCooldownsNoSave(tokenId) ==
    IF tokenId = NoToken THEN UNCHANGED <<cooldowns, cdFile>>
    ELSE IF cooldowns[tokenId].has
         THEN /\ cooldowns' = [cooldowns EXCEPT ![tokenId] = NoGroups]
              /\ UNCHANGED cdFile
         ELSE UNCHANGED <<cooldowns, cdFile>>

clearAllCooldowns(tokenId) ==
    IF tokenId = NoToken THEN UNCHANGED <<cooldowns, cdFile>>
    ELSE IF cooldowns[tokenId].has
         THEN /\ cooldowns' = [cooldowns EXCEPT ![tokenId] = NoGroups]
              /\ saveToFile(cooldowns', now)
         ELSE UNCHANGED <<cooldowns, cdFile>>

\* getAllCooldowns that keeps an entry whose until is the current time.
getAllCooldownsInclusive ==
    [id \in TokenIds |->
        [k \in MODEL_GROUPS |->
            IF cooldowns[id].has /\ cooldowns[id].g[k] >= now
            THEN cooldowns[id].g[k] ELSE 0]]

\* What getAllCooldowns returns: the entries with until > now, per credential
\* (untilFormatted is a rendering of until and is left out).
getAllCooldowns ==
    [id \in TokenIds |->
        [k \in MODEL_GROUPS |->
            IF cooldowns[id].has /\ cooldowns[id].g[k] > now
            THEN cooldowns[id].g[k] ELSE 0]]

\* The clock advances.
Tick ==
    /\ now < MaxTime
    /\ now' = now + 1
    /\ UNCHANGED <<cooldowns, cdFile>>
    /\ UNCHANGED notCooldown

SetCooldownCall ==
    \E t \in TokenIds \cup {NoToken}, m \in CooldownModelIds, u \in Untils :
        setCooldown(t, m, u) /\ UNCHANGED now /\ UNCHANGED notCooldown

IsAvailableCall ==
    \E t \in TokenIds \cup {NoToken}, m \in CooldownModelIds :
        isAvailable(t, m) /\ UNCHANGED now /\ UNCHANGED notCooldown

GetCooldownUntilCall ==
    \E t \in TokenIds \cup {NoToken}, m \in CooldownModelIds :
        getCooldownUntil(t, m) \in Untils /\ UNCHANGED cdVars /\ UNCHANGED notCooldown

ClearCooldownCall ==
    \E t \in TokenIds \cup {NoToken}, m \in CooldownModelIds :
        clearCooldown(t, m) /\ UNCHANGED now /\ UNCHANGED notCooldown

ClearAllCooldownsCall ==
    \E t \in TokenIds \cup {NoToken} :
        clearAllCooldowns(t) /\ UNCHANGED now /\ UNCHANGED notCooldown

GetAllCooldownsCall ==
    /\ getAllCooldowns \in [TokenIds -> [MODEL_GROUPS -> Untils]]
    /\ UNCHANGED cdVars
    /\ UNCHANGED notCooldown

CooldownNext ==
    \/ Tick
    \/ SetCooldownCall
    \/ IsAvailableCall
    \/ GetCooldownUntilCall
    \/ ClearCooldownCall
    \/ ClearAllCooldownsCall
    \/ GetAllCooldownsCall


(***************************************************************************)
(* The signature cache.                                                    *)
(*                                                                         *)
(* A file is a record: exists says whether the file is there, model and    *)
(* signatures are the fields of its JSON document (lastModified is written *)
(* and never read, and is left out). An entry is {signature, content}; ""  *)
(* is the absent or empty string. Files that exist hold documents this     *)
(* code wrote (a file that cannot be read or parsed reads as no history).  *)
(***************************************************************************)
MAX_SIGNATURES_PER_MODEL == 3

Placeholder == " "

NoFile == [exists |-> FALSE, model |-> <<>>, signatures |-> <<>>]

\* The characters of /[<>:"/\\|?*]/ replaced by "_", on one atom.
SanitizeAtom(a) ==
    CASE a = "publishers/google/" -> "publishers_google_"
      [] OTHER -> a

ResolutionSuffixes == {"-1k", "-2k", "-4k", "-8k"}

\* makeModelKey without the suffix stripping.
makeModelKeyNoStrip(model) ==
    IF model = <<>> THEN <<>>
    ELSE [i \in 1..Len(model) |-> SanitizeAtom(model[i])]

\* makeModelKey; <<>> is null (and the empty key).
makeModelKey(model) ==
    IF model = <<>> THEN <<>>
    ELSE LET raw == model
             baseModel ==
                 IF LowerAtom(raw[Len(raw)]) \in ResolutionSuffixes
                 THEN SubSeq(raw, 1, Len(raw) - 1)
                 ELSE raw
         IN [i \in 1..Len(baseModel) |-> SanitizeAtom(baseModel[i])]

\* isImageModel.
isImageModel(model) ==
    IF model = <<>> THEN FALSE
    ELSE includes(toLowerCase(model), <<"image">>)

\* Model ids the callers pass: two base models, one of them with characters
\* that are unsafe in a file name, and a resolution variant of each; <<>> is
\* the absent id.
ImageBase == <<"gemini", "-3-pro-", "image">>

PathBase == <<"publishers/google/", "gemini">>

SigModelIds ==
    { ImageBase, ImageBase \o <<"-4K">>, PathBase, PathBase \o <<"-2k">> }

\* makeModelKey and isImageModel on those ids, tabulated.
modelKeyOf == [m \in SigModelIds \cup {<<>>} |-> makeModelKey(m)]

isImageOf == [m \in SigModelIds \cup {<<>>} |-> isImageModel(m)]

SigKeys == {modelKeyOf[m] : m \in SigModelIds}

\* The config object: every combination of its four flags.
Configs ==
    [cacheAllSignatures : BOOLEAN, cacheToolSignatures : BOOLEAN,
     cacheImageSignatures : BOOLEAN, cacheThinking : BOOLEAN]

\* An option of the options object: not given, or a boolean.
OptValues == {"undef", "true", "false"}

\* readModelCache. files is the state of the cache directory.
readModelCache(files, modelKey) ==
    IF modelKey = <<>> THEN <<>>
    ELSE IF ~files[modelKey].exists THEN <<>>
    ELSE files[modelKey].signatures

\* writeModelCache: the directory after the call; ok is whether
\* ensureCacheDir and writeFileSync succeed (a failure is caught and logged).
writeModelCache(files, modelKey, signatures, ok) ==
    IF modelKey = <<>> THEN files
    ELSE IF ok
    THEN [files EXCEPT ![modelKey] =
            [exists |-> TRUE, model |-> modelKey, signatures |-> signatures]]
    ELSE files

\* getLatestEntry; found = FALSE is null.
NoEntry == [found |-> FALSE, signature |-> "", content |-> ""]

\* getLatestEntry that returns the oldest entry.
getLatestEntryOldest(files, modelKey) ==
    IF modelKey = <<>> THEN NoEntry
    ELSE LET signatures == readModelCache(files, modelKey) IN
         IF Len(signatures) = 0 THEN NoEntry
         ELSE [found |-> TRUE,
               signature |-> signatures[1].signature,
               content |-> signatures[1].content]

getLatestEntry(files, modelKey) ==
    IF modelKey = <<>> THEN NoEntry
    ELSE LET signatures == readModelCache(files, modelKey) IN
         IF Len(signatures) = 0 THEN NoEntry
         ELSE [found |-> TRUE,
               signature |-> signatures[Len(signatures)].signature,
               content |-> signatures[Len(signatures)].content]

\* The loop of pushEntry with its bound off by one.
RECURSIVE ShiftToCapacityOffByOne(_)
ShiftToCapacityOffByOne(signatures) ==
    IF Len(signatures) > MAX_SIGNATURES_PER_MODEL + 1
    THEN ShiftToCapacityOffByOne(Tail(signatures))
    ELSE signatures

\* The loop of pushEntry: shift while the length exceeds the capacity.
RECURSIVE ShiftToCapacity(_)
ShiftToCapacity(signatures) ==
    IF Len(signatures) > MAX_SIGNATURES_PER_MODEL
    THEN ShiftToCapacity(Tail(signatures))
    ELSE signatures

\* pushEntry without the check against the tail.
pushEntryNoDedupe(files, modelKey, entry, ok) ==
    IF modelKey = <<>> \/ entry.signature = "" THEN files
    ELSE LET signatures == readModelCache(files, modelKey) IN
         writeModelCache(files, modelKey,
                         ShiftToCapacity(Append(signatures, entry)), ok)

\* pushEntry: the directory after the call.
pushEntry(files, modelKey, entry, ok) ==
    IF modelKey = <<>> \/ entry.signature = "" THEN files
    ELSE LET signatures == readModelCache(files, modelKey) IN
         IF Len(signatures) > 0
            /\ signatures[Len(signatures)].signature = entry.signature
         THEN files
         ELSE writeModelCache(files, modelKey,
                              ShiftToCapacity(Append(signatures, entry)), ok)

\* shouldCacheSignature that ignores the image policy.
shouldCacheSignatureNoImage(hasTools, isImage) ==
    IF config.cacheAllSignatures THEN TRUE
    ELSE IF config.cacheToolSignatures /\ hasTools THEN TRUE
    ELSE FALSE

shouldCacheSignature(hasTools, isImage) ==
    IF config.cacheAllSignatures THEN TRUE
    ELSE IF config.cacheToolSignatures /\ hasTools THEN TRUE
    ELSE IF config.cacheImageSignatures /\ isImage THEN TRUE
    ELSE FALSE

\* processThinkingContent.
processThinkingContent(content) ==
    IF ~config.cacheThinking THEN Placeholder
    ELSE IF content = "" THEN Placeholder ELSE content

\* options.isImageModel ?? isImageModel(model)
isImageFor(model, opts) ==
    IF opts.isImageModel = "undef" THEN isImageOf[model]
    ELSE opts.isImageModel = "true"

\* options.hasTools ?? false
hasToolsOf(opts) ==
    IF opts.hasTools = "undef" THEN FALSE ELSE opts.hasTools = "true"

\* setSignature: the directory after the call (sessionId takes no part).
\* opts is the options object.
setSignature(files, model, signature, content, opts, ok) ==
    IF signature = "" \/ model = <<>> THEN files
    ELSE LET isImage == isImageFor(model, opts)
             hasTools == hasToolsOf(opts)
         IN IF ~shouldCacheSignature(hasTools, isImage)
            THEN files
            ELSE pushEntry(files, modelKeyOf[model],
                           [signature |-> signature,
                            content |-> processThinkingContent(content)], ok)

\* getSignature that returns the stored content whatever the policy.
getSignatureStoredContent(files, model) ==
    IF model = <<>> THEN NoEntry
    ELSE getLatestEntry(files, modelKeyOf[model])

\* What getSignature returns; found = FALSE is null.
getSignature(files, model) ==
    IF model = <<>> THEN NoEntry
    ELSE LET entry == getLatestEntry(files, modelKeyOf[model]) IN
         IF ~entry.found THEN NoEntry
         ELSE [found |-> TRUE,
               signature |-> entry.signature,
               content |-> IF config.cacheThinking THEN entry.content
                           ELSE Placeholder]

\* clearThoughtSignatureCaches leaving the file of the first model key.
clearThoughtSignatureCachesLeavesOne(files, deleted) ==
    [k \in SigKeys |-> IF k \in deleted /\ k # ImageBase THEN NoFile
                       ELSE files[k]]

\* clearThoughtSignatureCaches: the directory after the call; deleted is the
\* set of files unlinked before the loop ended (all of them unless an unlink
\* failed; the failure is caught and logged).
clearThoughtSignatureCaches(files, deleted) ==
    [k \in SigKeys |-> IF k \in deleted THEN NoFile ELSE files[k]]

\* The state after the module is loaded: no history file, any configuration.
SigInit ==
    /\ config \in Configs
    /\ sigFiles = [k \in SigKeys |-> NoFile]

\* The component at rest, in the specifications of the other components.
SigIdle ==
    /\ config = [cacheAllSignatures |-> FALSE, cacheToolSignatures |-> FALSE,
                 cacheImageSignatures |-> FALSE, cacheThinking |-> FALSE]
    /\ sigFiles = [k \in SigKeys |-> NoFile]

\* The configuration is changed (by whoever owns the config object).
SetConfig ==
    /\ \E c \in Configs : config' = c
    /\ UNCHANGED sigFiles
    /\ UNCHANGED notSig

\* Signatures and contents the callers pass; "" is absent.
WideSignatures == {"s1", "s2"}

DeepSignatures == {"s1", "s2", "s3", "s4"}

Contents == {"", "c1"}

Options == [hasTools : {"undef", "true"}, isImageModel : OptValues]

SetSignatureCall(ids, sigs) ==
    \E m \in ids \cup {<<>>}, sig \in sigs \cup {""}, c \in Contents,
       o \in Options, ok \in BOOLEAN :
        /\ sigFiles' = setSignature(sigFiles, m, sig, c, o, ok)
        /\ UNCHANGED config
        /\ UNCHANGED notSig

GetSignatureCall(ids) ==
    \E m \in ids \cup {<<>>} :
        /\ getSignature(sigFiles, m).found \in BOOLEAN
        /\ UNCHANGED sigVars
        /\ UNCHANGED notSig

ClearCall ==
    \E deleted \in SUBSET SigKeys :
        /\ sigFiles' = clearThoughtSignatureCaches(sigFiles, deleted)
        /\ UNCHANGED config
        /\ UNCHANGED notSig

\* Both base models and their variants, two signatures.
SigNext ==
    \/ SetConfig
    \/ SetSignatureCall(SigModelIds, WideSignatures)
    \/ GetSignatureCall(SigModelIds)
    \/ ClearCall

\* One base model and its variant, four signatures.
SigDeepNext ==
    \/ SetConfig
    \/ SetSignatureCall({ImageBase, ImageBase \o <<"-4K">>}, DeepSignatures)
    \/ GetSignatureCall({ImageBase, ImageBase \o <<"-4K">>})
    \/ ClearCall

(***************************************************************************)
(* TokenStore.                                                             *)
(*                                                                         *)
(* Its methods are async: a call runs synchronously up to an await on a    *)
(* file operation, the operation takes effect on the file at some later    *)
(* step, and the code after the await runs at a step later still. calls    *)
(* holds, per slot, the call in flight with its position (pc) and locals.  *)
(* An await on a promise that needs no file operation (getSalt with _salt  *)
(* set) is not a point where another call's file operation completes and   *)
(* is run through. File operations do not fail here, and fs.access, mkdir  *)
(* and the decision that follows them are one step (they touch no memory). *)
(***************************************************************************)
\* The value of FILE_CACHE_TTL is defined outside this source; one tick.
FILE_CACHE_TTL == 1

NoSalt == 0

\* generateSalt is called at most this many times (the initial salt counts).
MaxSalts == 5

\* The salt of a document that was complete before the process started.
InitialSalt == 1

\* A field that a record does not have.
Absent == 0

\* A credential record: its identity key and the fields that matter here.
Rec(rt, at, en, sid) ==
    [refresh_token |-> rt, access_token |-> at, enable |-> en,
     sessionId |-> sid]

\* null, as a record argument.
NoRecord == Rec("", Absent, Absent, Absent)

\* Records on disk: account ra before and after a refresh, account rb.
OldA == Rec("ra", 1, 1, Absent)

NewA == Rec("ra", 2, 1, Absent)

OldB == Rec("rb", 1, 2, Absent)

\* Records of the caller's working set: new access tokens, a sessionId, no
\* enable field; rc is on no document.
WorkA == Rec("ra", 3, Absent, 7)

WorkB == Rec("rb", 3, Absent, 7)

WorkC == Rec("rc", 3, Absent, 7)

\* The arguments of writeAll and of mergeActiveTokens.
WriteArgs == { <<OldA, OldB>>, <<NewA, OldB>> }

MergeArgs ==
    { [activeTokens |-> <<WorkA, WorkC>>, tokenToUpdate |-> NoRecord],
      [activeTokens |-> <<WorkA>>, tokenToUpdate |-> WorkB] }

\* The document: missing, a legacy bare array, or an object {salt, tokens}
\* (salt = NoSalt: no salt).
MissingDoc == [kind |-> "missing", salt |-> NoSalt, tokens |-> <<>>]

ArrayDoc(tokens) == [kind |-> "array", salt |-> NoSalt, tokens |-> tokens]

ObjectDoc(s, tokens) == [kind |-> "object", salt |-> s, tokens |-> tokens]

InitialDocuments ==
    { MissingDoc, ArrayDoc(<<OldB, OldA>>), ObjectDoc(NoSalt, <<OldA, OldB>>),
      ObjectDoc(InitialSalt, <<OldA, OldB>>) }

\* Documents that readAll cannot use: text that JSON.parse rejects, and an
\* object whose tokens is not an array; and what a call holds after its
\* fs.readFile was rejected.
MalformedDoc == [kind |-> "malformed", salt |-> NoSalt, tokens |-> <<>>]

WrongShapeDoc == [kind |-> "wrongShape", salt |-> InitialSalt, tokens |-> <<>>]

ReadError == [kind |-> "error", salt |-> NoSalt, tokens |-> <<>>]

FaultyDocuments == InitialDocuments \cup {MalformedDoc, WrongShapeDoc}

Slots == {1, 2}

\* No call in the slot.
Idle ==
    [op |-> "idle", pc |-> "idle", tokens |-> <<>>,
     activeTokens |-> <<>>, tokenToUpdate |-> NoRecord,
     data |-> MissingDoc, salt |-> NoSalt, ret |-> <<>>,
     expectOk |-> FALSE, expect |-> <<>>, alone |-> FALSE, old |-> <<>>]

NullCache == [isNull |-> TRUE, tokens |-> <<>>]

\* The constructor.
StoreIdle ==
    /\ accountsFile = MissingDoc
    /\ cache = NullCache
    /\ cacheTime = 0
    /\ salt = NoSalt
    /\ saltCount = InitialSalt
    /\ calls = [s \in Slots |-> Idle]
    /\ committed = [ok |-> FALSE, recs |-> <<>>]

StoreInit ==
    /\ accountsFile \in InitialDocuments
    /\ cache = NullCache
    /\ cacheTime = 0
    /\ salt = NoSalt
    /\ saltCount = InitialSalt
    /\ calls = [s \in Slots |-> Idle]
    /\ committed = [ok |-> FALSE, recs |-> <<>>]

\* _isCacheValid
IsCacheValid == ~cache.isNull /\ (now - cacheTime) < FILE_CACHE_TTL

\* allTokens.findIndex(t => t.refresh_token === rt); 0 is -1.
findIndex(allTokens, rt) ==
    IF \E i \in 1..Len(allTokens) : allTokens[i].refresh_token = rt
    THEN CHOOSE i \in 1..Len(allTokens) :
            /\ allTokens[i].refresh_token = rt
            /\ \A j \in 1..(i - 1) : allTokens[j].refresh_token # rt
    ELSE 0

\* { ...old, ...plain } with plain the target without its sessionId.
Overlay(old, target) ==
    [refresh_token |-> target.refresh_token,
     access_token |-> IF target.access_token # Absent
                      THEN target.access_token ELSE old.access_token,
     enable |-> IF target.enable # Absent THEN target.enable ELSE old.enable,
     sessionId |-> old.sessionId]

\* { ...plain }: the target replaces the record.
OverlayReplace(old, target) ==
    [refresh_token |-> target.refresh_token,
     access_token |-> target.access_token,
     enable |-> target.enable,
     sessionId |-> Absent]

applyUpdate(allTokens, targetToken) ==
    IF targetToken = NoRecord THEN allTokens
    ELSE LET index == findIndex(allTokens, targetToken.refresh_token) IN
         IF index # 0
         THEN [allTokens EXCEPT ![index] = Overlay(allTokens[index],
                                                   targetToken)]
         ELSE allTokens

RECURSIVE applyUpdates(_, _)
applyUpdates(allTokens, activeTokens) ==
    IF activeTokens = <<>> THEN allTokens
    ELSE applyUpdates(applyUpdate(allTokens, Head(activeTokens)),
                      Tail(activeTokens))

\* The synchronous middle of mergeActiveTokens: allTokens as passed to
\* writeAll.
mergedTokens(allTokens, activeTokens, tokenToUpdate) ==
    IF tokenToUpdate # NoRecord THEN applyUpdate(allTokens, tokenToUpdate)
    ELSE applyUpdates(allTokens, activeTokens)

\* A call is in flight in slot x.
InFlight(x) == calls[x].pc \notin {"idle", "returned", "raised"}

\* calls after a call starts in slot s as c: no call in flight runs alone
\* any more, and if the new call may write, no readAll in flight is one that
\* began with no write started since the last completed writeAll.
Started(s, c, writes) ==
    [x \in Slots |->
        IF x = s THEN c
        ELSE [calls[x] EXCEPT !.alone = FALSE,
                              !.old = <<>>,
                              !.expectOk = IF writes THEN FALSE ELSE @,
                              !.expect = IF writes THEN <<>> ELSE @]]

\* readAll returns result to the call c that awaited it: to the caller, or
\* to mergeActiveTokens, which merges and calls writeAll.
AfterRead(c, result) ==
    IF c.op = "readAll"
    THEN [c EXCEPT !.pc = "returned", !.ret = result, !.data = MissingDoc]
    ELSE [c EXCEPT !.pc = "w_access", !.data = MissingDoc,
                   !.tokens = mergedTokens(result, c.activeTokens,
                                           c.tokenToUpdate)]

\* getSalt returns v to the call c: to the caller, or to writeAll, which
\* issues its write.
AfterGetSalt(c, v) ==
    IF c.op = "getSalt"
    THEN [c EXCEPT !.pc = "returned", !.salt = v, !.data = MissingDoc]
    ELSE [c EXCEPT !.pc = "w_write", !.salt = v, !.data = MissingDoc]

\* readAll up to its first await.
readAllStart(c) ==
    IF IsCacheValid THEN AfterRead(c, cache.tokens)
    ELSE [c EXCEPT !.pc = "r_access"]

ReadAllCall(s) ==
    /\ calls[s].pc = "idle"
    /\ calls' = Started(s, readAllStart([Idle EXCEPT
                                            !.op = "readAll",
                                            !.expectOk = committed.ok,
                                            !.expect = committed.recs]),
                        FALSE)
    /\ UNCHANGED <<accountsFile, cache, cacheTime, salt, saltCount, committed>>
    /\ UNCHANGED now
    /\ UNCHANGED notStore

WriteAllCall(s) ==
    /\ calls[s].pc = "idle"
    /\ \E tokens \in WriteArgs :
         calls' = Started(s, [Idle EXCEPT !.op = "writeAll",
                                          !.pc = "w_access",
                                          !.tokens = tokens], TRUE)
    /\ committed' = [ok |-> FALSE, recs |-> <<>>]
    /\ UNCHANGED <<accountsFile, cache, cacheTime, salt, saltCount>>
    /\ UNCHANGED now
    /\ UNCHANGED notStore

MergeActiveTokensCall(s) ==
    /\ calls[s].pc = "idle"
    /\ \E a \in MergeArgs :
         calls' = Started(s, readAllStart([Idle EXCEPT
                    !.op = "merge",
                    !.activeTokens = a.activeTokens,
                    !.tokenToUpdate = a.tokenToUpdate,
                    !.alone = \A x \in Slots \ {s} : ~InFlight(x),
                    !.old = IF \A x \in Slots \ {s} : ~InFlight(x)
                            THEN accountsFile.tokens ELSE <<>>]), TRUE)
    /\ committed' = [ok |-> FALSE, recs |-> <<>>]
    /\ UNCHANGED <<accountsFile, cache, cacheTime, salt, saltCount>>
    /\ UNCHANGED now
    /\ UNCHANGED notStore

GetSaltCall(s) ==
    /\ calls[s].pc = "idle"
    /\ calls' = Started(s, IF salt # NoSalt
                           THEN AfterGetSalt([Idle EXCEPT !.op = "getSalt"],
                                             salt)
                           ELSE [Idle EXCEPT !.op = "getSalt",
                                             !.pc = "s_access"], TRUE)
    /\ committed' = [ok |-> FALSE, recs |-> <<>>]
    /\ UNCHANGED <<accountsFile, cache, cacheTime, salt, saltCount>>
    /\ UNCHANGED now
    /\ UNCHANGED notStore

\* _ensureFileExists: mkdir and access; a missing file is to be created
\* with a new salt.
EnsureAccess(s) ==
    /\ calls[s].pc \in {"r_access", "w_access", "s_access"}
    /\ IF accountsFile.kind = "missing"
       THEN /\ saltCount < MaxSalts
            /\ calls' = [calls EXCEPT ![s].pc =
                            CASE @ = "r_access" -> "r_create"
                              [] @ = "w_access" -> "w_create"
                              [] OTHER -> "s_create",
                          ![s].salt = saltCount + 1]
            /\ saltCount' = saltCount + 1
       ELSE /\ calls' = [calls EXCEPT ![s].pc =
                            CASE @ = "r_access" -> "r_read"
                              [] @ = "w_access" -> "w_accessDone"
                              [] OTHER -> "s_read"]
            /\ UNCHANGED saltCount
    /\ UNCHANGED <<accountsFile, cache, cacheTime, salt, committed>>
    /\ UNCHANGED now
    /\ UNCHANGED notStore

\* _ensureFileExists: the writeFile of the initial document takes effect.
EnsureCreate(s) ==
    /\ calls[s].pc \in {"r_create", "w_create", "s_create"}
    /\ accountsFile' = ObjectDoc(calls[s].salt, <<>>)
    /\ calls' = [calls EXCEPT ![s].pc =
                    CASE @ = "r_create" -> "r_read"
                      [] @ = "w_create" -> "w_accessDone"
                      [] OTHER -> "s_read",
                  ![s].salt = NoSalt]
    /\ UNCHANGED <<cache, cacheTime, salt, saltCount, committed>>
    /\ UNCHANGED now
    /\ UNCHANGED notStore

\* fs.readFile of readAll or getSalt takes effect.
ReadFile(s) ==
    /\ calls[s].pc \in {"r_read", "s_read"}
    /\ calls' = [calls EXCEPT ![s].pc = IF @ = "r_read" THEN "r_readDone"
                                        ELSE "s_readDone",
                              ![s].data = accountsFile]
    /\ UNCHANGED <<accountsFile, cache, cacheTime, salt, saltCount, committed>>
    /\ UNCHANGED now
    /\ UNCHANGED notStore

\* What readAll makes of what it read: the array, the tokens array of the
\* object, or [] (wrong shape, or the catch of a read or parse error).
readAllParsed(data) ==
    CASE data.kind = "array" -> data.tokens
      [] data.kind = "object" -> data.tokens
      [] OTHER -> <<>>

\* readAll after its readFile: the cache is set from what was read.
ReadAllDone(s) ==
    /\ calls[s].pc = "r_readDone"
    /\ cache' = [isNull |-> FALSE, tokens |-> readAllParsed(calls[s].data)]
    /\ cacheTime' = now
    /\ calls' = [calls EXCEPT
                    ![s] = AfterRead(@, readAllParsed(calls[s].data))]
    /\ UNCHANGED <<accountsFile, salt, saltCount, committed>>
    /\ UNCHANGED now
    /\ UNCHANGED notStore

\* writeAll after _ensureFileExists: getSalt, up to its first await.
WriteAllGetSalt(s) ==
    /\ calls[s].pc = "w_accessDone"
    /\ calls' = [calls EXCEPT ![s] =
                    IF salt # NoSalt THEN AfterGetSalt(@, salt)
                    ELSE [@ EXCEPT !.pc = "s_access"]]
    /\ UNCHANGED <<accountsFile, cache, cacheTime, salt, saltCount, committed>>
    /\ UNCHANGED now
    /\ UNCHANGED notStore

\* GetSaltParsed that rewrites the document with an empty tokens array.
GetSaltParsedEmptyTokens(s) ==
    /\ calls[s].pc = "s_readDone"
    /\ calls[s].data.kind \notin {"malformed", "error"}
    /\ IF calls[s].data.kind = "array" \/ calls[s].data.salt = NoSalt
       THEN /\ saltCount < MaxSalts
            /\ calls' = [calls EXCEPT
                            ![s].pc = "s_write",
                            ![s].salt = saltCount + 1,
                            ![s].data = ObjectDoc(saltCount + 1, <<>>)]
            /\ saltCount' = saltCount + 1
            /\ UNCHANGED salt
       ELSE /\ salt' = calls[s].data.salt
            /\ calls' = [calls EXCEPT
                            ![s] = AfterGetSalt(@, calls[s].data.salt)]
            /\ UNCHANGED saltCount
    /\ UNCHANGED <<accountsFile, cache, cacheTime, committed>>
    /\ UNCHANGED now
    /\ UNCHANGED notStore

\* getSalt after its readFile: a legacy array or a document without salt
\* is to be rewritten with a new salt; otherwise the salt read is kept.
GetSaltParsed(s) ==
    /\ calls[s].pc = "s_readDone"
    /\ calls[s].data.kind \notin {"malformed", "error"}
    /\ IF calls[s].data.kind = "array" \/ calls[s].data.salt = NoSalt
       THEN /\ saltCount < MaxSalts
            /\ calls' = [calls EXCEPT
                            ![s].pc = "s_write",
                            ![s].salt = saltCount + 1,
                            ![s].data = ObjectDoc(saltCount + 1,
                                                  calls[s].data.tokens)]
            /\ saltCount' = saltCount + 1
            /\ UNCHANGED salt
       ELSE /\ salt' = calls[s].data.salt
            /\ calls' = [calls EXCEPT
                            ![s] = AfterGetSalt(@, calls[s].data.salt)]
            /\ UNCHANGED saltCount
    /\ UNCHANGED <<accountsFile, cache, cacheTime, committed>>
    /\ UNCHANGED now
    /\ UNCHANGED notStore

\* getSalt: the writeFile of the document with its new salt takes effect.
GetSaltWrite(s) ==
    /\ calls[s].pc = "s_write"
    /\ accountsFile' = calls[s].data
    /\ calls' = [calls EXCEPT ![s].pc = "s_writeDone"]
    /\ UNCHANGED <<cache, cacheTime, salt, saltCount, committed>>
    /\ UNCHANGED now
    /\ UNCHANGED notStore

\* getSalt after that writeFile.
GetSaltDone(s) ==
    /\ calls[s].pc = "s_writeDone"
    /\ salt' = calls[s].salt
    /\ calls' = [calls EXCEPT ![s] = AfterGetSalt(@, calls[s].salt)]
    /\ UNCHANGED <<accountsFile, cache, cacheTime, saltCount, committed>>
    /\ UNCHANGED now
    /\ UNCHANGED notStore

\* The writeFile of writeAll takes effect.
WriteFile(s) ==
    /\ calls[s].pc = "w_write"
    /\ accountsFile' = ObjectDoc(calls[s].salt, calls[s].tokens)
    /\ calls' = [calls EXCEPT ![s].pc = "w_writeDone"]
    /\ UNCHANGED <<cache, cacheTime, salt, saltCount, committed>>
    /\ UNCHANGED now
    /\ UNCHANGED notStore

\* writeAll after its writeFile: the cache is set to what was written.
WriteAllDone(s) ==
    /\ calls[s].pc = "w_writeDone"
    /\ cache' = [isNull |-> FALSE, tokens |-> calls[s].tokens]
    /\ cacheTime' = now
    /\ calls' = [calls EXCEPT ![s].pc = "returned"]
    /\ committed' =
          IF /\ calls[s].op = "writeAll"
             /\ \A x \in Slots \ {s} :
                  ~InFlight(x) \/ calls[x].op = "readAll"
          THEN [ok |-> TRUE, recs |-> calls[s].tokens]
          ELSE committed
    /\ UNCHANGED <<accountsFile, salt, saltCount>>
    /\ UNCHANGED now
    /\ UNCHANGED notStore

\* The caller has taken the result.
Return(s) ==
    /\ calls[s].pc = "returned"
    /\ calls' = [calls EXCEPT ![s] = Idle]
    /\ UNCHANGED <<accountsFile, cache, cacheTime, salt, saltCount, committed>>
    /\ UNCHANGED now
    /\ UNCHANGED notStore

(***************************************************************************)
(* File operations that fail.                                              *)
(***************************************************************************)
\* _ensureFileExists: the writeFile of the initial document is rejected
\* (also when mkdir failed before); nothing catches it and the call that
\* awaited _ensureFileExists rejects.
EnsureCreateFails(s) ==
    /\ calls[s].pc \in {"r_create", "w_create", "s_create"}
    /\ calls' = [calls EXCEPT ![s].pc = "raised", ![s].salt = NoSalt]
    /\ UNCHANGED <<accountsFile, cache, cacheTime, salt, saltCount, committed>>
    /\ UNCHANGED now
    /\ UNCHANGED notStore

\* fs.readFile of readAll or getSalt is rejected.
ReadFileFails(s) ==
    /\ calls[s].pc \in {"r_read", "s_read"}
    /\ calls' = [calls EXCEPT ![s].pc = IF @ = "r_read" THEN "r_readDone"
                                        ELSE "s_readDone",
                              ![s].data = ReadError]
    /\ UNCHANGED <<accountsFile, cache, cacheTime, salt, saltCount, committed>>
    /\ UNCHANGED now
    /\ UNCHANGED notStore

\* getSalt's catch after a read or parse error: a temporary salt.
GetSaltCaught(s) ==
    /\ calls[s].pc = "s_readDone"
    /\ calls[s].data.kind \in {"malformed", "error"}
    /\ saltCount < MaxSalts
    /\ salt' = saltCount + 1
    /\ saltCount' = saltCount + 1
    /\ calls' = [calls EXCEPT ![s] = AfterGetSalt(@, saltCount + 1)]
    /\ UNCHANGED <<accountsFile, cache, cacheTime, committed>>
    /\ UNCHANGED now
    /\ UNCHANGED notStore

\* getSalt: the writeFile of the document with its new salt is rejected;
\* the catch makes another, temporary salt.
GetSaltWriteFails(s) ==
    /\ calls[s].pc = "s_write"
    /\ saltCount < MaxSalts
    /\ salt' = saltCount + 1
    /\ saltCount' = saltCount + 1
    /\ calls' = [calls EXCEPT ![s] = AfterGetSalt(@, saltCount + 1)]
    /\ UNCHANGED <<accountsFile, cache, cacheTime, committed>>
    /\ UNCHANGED now
    /\ UNCHANGED notStore

\* The writeFile of writeAll is rejected: writeAll logs and rethrows.
WriteFileFails(s) ==
    /\ calls[s].pc = "w_write"
    /\ calls' = [calls EXCEPT ![s].pc = "raised"]
    /\ UNCHANGED <<accountsFile, cache, cacheTime, salt, saltCount, committed>>
    /\ UNCHANGED now
    /\ UNCHANGED notStore

\* The caller has taken the rejection.
Rejected(s) ==
    /\ calls[s].pc = "raised"
    /\ calls' = [calls EXCEPT ![s] = Idle]
    /\ UNCHANGED <<accountsFile, cache, cacheTime, salt, saltCount, committed>>
    /\ UNCHANGED now
    /\ UNCHANGED notStore

\* The steps of the call in slot s when every file operation succeeds.
StoreSteps(s) ==
    \/ ReadAllCall(s)
    \/ WriteAllCall(s)
    \/ MergeActiveTokensCall(s)
    \/ GetSaltCall(s)
    \/ EnsureAccess(s)
    \/ EnsureCreate(s)
    \/ ReadFile(s)
    \/ ReadAllDone(s)
    \/ WriteAllGetSalt(s)
    \/ GetSaltParsed(s)
    \/ GetSaltWrite(s)
    \/ GetSaltDone(s)
    \/ WriteFile(s)
    \/ WriteAllDone(s)
    \/ Return(s)

\* One call at a time, with file operations that may fail.
StoreFaultsNext ==
    \/ Tick
    \/ StoreSteps(1)
    \/ EnsureCreateFails(1)
    \/ ReadFileFails(1)
    \/ GetSaltCaught(1)
    \/ GetSaltWriteFails(1)
    \/ WriteFileFails(1)
    \/ Rejected(1)

StoreNext ==
    \/ Tick
    \/ \E s \in Slots : ReadAllCall(s)
    \/ \E s \in Slots : WriteAllCall(s)
    \/ \E s \in Slots : MergeActiveTokensCall(s)
    \/ \E s \in Slots : GetSaltCall(s)
    \/ \E s \in Slots : EnsureAccess(s)
    \/ \E s \in Slots : EnsureCreate(s)
    \/ \E s \in Slots : ReadFile(s)
    \/ \E s \in Slots : ReadAllDone(s)
    \/ \E s \in Slots : WriteAllGetSalt(s)
    \/ \E s \in Slots : GetSaltParsed(s)
    \/ \E s \in Slots : GetSaltWrite(s)
    \/ \E s \in Slots : GetSaltDone(s)
    \/ \E s \in Slots : WriteFile(s)
    \/ \E s \in Slots : WriteAllDone(s)
    \/ \E s \in Slots : Return(s)

(***************************************************************************)
(* Specifications.                                                         *)
(***************************************************************************)
CooldownIdle ==
    /\ now = StartTime
    /\ cooldowns = [id \in TokenIds |-> NoGroups]
    /\ cdFile = [id \in TokenIds |-> NoGroups]

InitCooldown == CooldownInit /\ SigIdle /\ StoreIdle

SpecCooldown == InitCooldown /\ [][CooldownNext]_vars

InitSig == SigInit /\ CooldownIdle /\ StoreIdle

SpecSig == InitSig /\ [][SigNext]_vars

SpecSigDeep == InitSig /\ [][SigDeepNext]_vars

InitStore == StoreInit /\ now = StartTime /\ CooldownIdle /\ SigIdle

SpecStore == InitStore /\ [][StoreNext]_vars

StoreFaultsInit ==
    /\ accountsFile \in FaultyDocuments
    /\ cache = NullCache
    /\ cacheTime = 0
    /\ salt = NoSalt
    /\ saltCount = InitialSalt
    /\ calls = [s \in Slots |-> Idle]
    /\ committed = [ok |-> FALSE, recs |-> <<>>]

InitStoreFaults == StoreFaultsInit /\ CooldownIdle /\ SigIdle

SpecStoreFaults == InitStoreFaults /\ [][StoreFaultsNext]_vars

(***************************************************************************)
(* Claims on the cooldown registry.                                        *)
(***************************************************************************)
\* A step that sets or releases the pair (t, family of m): an effective
\* setCooldown, clearCooldown or clearAllCooldowns on it.
ResetsPair(t, m) ==
    /\ now' = now
    /\ \/ \E m2 \in CooldownModelIds, u \in Untils \ {0} :
            groupKeyOf[m2] = groupKeyOf[m] /\ setCooldown(t, m2, u)
       \/ \E m2 \in CooldownModelIds :
            /\ groupKeyOf[m2] = groupKeyOf[m]
            /\ cooldowns[t].g[groupKeyOf[m]] > 0
            /\ clearCooldown(t, m2)
       \/ cooldowns[t].has /\ clearAllCooldowns(t)

\* C1: right after setCooldown(t, m, u) with u later than now, isAvailable
\* returns false and getCooldownUntil returns u; as long as no step sets or
\* releases that pair, this stays so at every time strictly before the
\* deadline, and at every time at or after the deadline isAvailable returns
\* true and getCooldownUntil returns absent (0); and a pair that is
\* available stays available until a setCooldown on it.
C1_CooldownUntilDeadline ==
    [][\A t \in TokenIds, m \in CooldownModelIds :
        LET d == getCooldownUntil(t, m) IN
        /\ \A u \in Untils :
             (u > now /\ now' = now /\ setCooldown(t, m, u))
                => (~isAvailableRet(t, m)' /\ getCooldownUntil(t, m)' = u)
        /\ d > 0
             => \/ IF now' < d
                   THEN ~isAvailableRet(t, m)' /\ getCooldownUntil(t, m)' = d
                   ELSE isAvailableRet(t, m)' /\ getCooldownUntil(t, m)' = 0
                \/ ResetsPair(t, m)
        /\ d = 0
             => \/ isAvailableRet(t, m)' /\ getCooldownUntil(t, m)' = 0
                \/ ResetsPair(t, m)
      ]_cdVars

\* C1's case: a deadline set for t2 (no document on disk names t2 at startup)
\* was persisted while it was in the future, and the clock has reached it.
C1_Witness ==
    \E k \in MODEL_GROUPS :
        /\ cooldowns["t2"].g[k] > 0
        /\ cooldowns["t2"].g[k] <= now
        /\ cdFile["t2"].g[k] = cooldowns["t2"].g[k]
        /\ \A m \in CooldownModelIds :
             groupKeyOf[m] = k => isAvailableRet("t2", m)

\* C2: a setCooldown, clearCooldown or isAvailable call for (t, m) leaves the
\* in-memory entry of every pair of another credential or another family
\* unchanged, and with it what isAvailable answers for that pair.
C2_FamilyAndCredentialIsolation ==
    [][\A t \in TokenIds \cup {NoToken}, m \in CooldownModelIds :
        (/\ now' = now
         /\ cooldowns' # cooldowns
         /\ \/ \E u \in Untils : setCooldown(t, m, u)
            \/ clearCooldown(t, m)
            \/ isAvailable(t, m))
        => \A t2 \in TokenIds :
             /\ \A k \in MODEL_GROUPS :
                  (t2 # t \/ k # groupKeyOf[m])
                     => cooldowns'[t2].g[k] = cooldowns[t2].g[k]
             /\ \A m2 \in CooldownModelIds :
                  (t2 # t \/ groupKeyOf[m2] # groupKeyOf[m])
                     => isAvailableRet(t2, m2)' = isAvailableRet(t2, m2)
      ]_cdVars

\* C2's case (the spec's scenario): t1 is cooling for claude-3-opus and
\* available for gemini-pro, while t2 is cooling for gemini-pro.
C2_Witness ==
    /\ ~isAvailableRet("t1", <<"claude", "-3-opus">>)
    /\ isAvailableRet("t1", <<"gemini", "-pro">>)
    /\ ~isAvailableRet("t2", <<"gemini", "-pro">>)

(***************************************************************************)
(* Claims on the signature cache.                                          *)
(***************************************************************************)
\* The signatures of a history, in order.
SignaturesOf(h) == [i \in 1..Len(h) |-> h[i].signature]

\* The stored history of the base model of model id m.
HistoryOf(m) == readModelCache(sigFiles, modelKeyOf[m])

\* setSignature(m, sig, _, o) passes its guards in the current state: model
\* and signature are present and the caching policy allows it.
PassesGuards(m, sig, o) ==
    /\ m # <<>>
    /\ sig # ""
    /\ \/ config.cacheAllSignatures
       \/ config.cacheToolSignatures /\ o.hasTools = "true"
       \/ /\ config.cacheImageSignatures
          /\ \/ o.isImageModel = "true"
             \/ o.isImageModel = "undef"
                  /\ includes(toLowerCase(m), <<"image">>)

\* C3: every stored history has at most 3 entries, and a push accepted onto
\* a history of 3 (a setSignature that passes its guards, with a signature
\* other than the tail's, written to the file) removes exactly the oldest
\* entry, keeps the other two in their order and places the new entry last.
C3_BoundedFifo ==
    /\ \A k \in SigKeys : Len(sigFiles[k].signatures) <= 3
    /\ \A m \in SigModelIds, sig \in DeepSignatures, c \in Contents,
          o \in Options :
         LET h == HistoryOf(m)
             r == readModelCache(setSignature(sigFiles, m, sig, c, o, TRUE),
                                 modelKeyOf[m])
         IN (Len(h) = 3 /\ PassesGuards(m, sig, o) /\ h[3].signature # sig)
               => /\ Len(r) = 3
                  /\ r[1] = h[2]
                  /\ r[2] = h[3]
                  /\ r[3].signature = sig

\* C3's case: s1, s2, s3, s4 were pushed in order for the image model and
\* the history is [s2, s3, s4].
C3_Witness ==
    SignaturesOf(sigFiles[ImageBase].signatures) = <<"s2", "s3", "s4">>

\* C4: a setSignature whose signature equals that of the tail of the base
\* model's history leaves every file as it was (no entry added, changed or
\* evicted), and no history holds two adjacent entries with one signature.
C4_TailDuplicateIsNoOp ==
    /\ \A k \in SigKeys, i \in 1..2 :
         i < Len(sigFiles[k].signatures)
            => sigFiles[k].signatures[i].signature
                  # sigFiles[k].signatures[i + 1].signature
    /\ \A m \in SigModelIds, c \in Contents, o \in Options, ok \in BOOLEAN :
         LET h == HistoryOf(m) IN
         Len(h) > 0
            => setSignature(sigFiles, m, h[Len(h)].signature, c, o, ok)
                  = sigFiles

\* C4's case: the history is full, its tail is s4 with the placeholder as
\* content, and the policies would accept a push with other content.
C4_Witness ==
    /\ Len(sigFiles[ImageBase].signatures) = 3
    /\ sigFiles[ImageBase].signatures[3]
          = [signature |-> "s4", content |-> Placeholder]
    /\ config.cacheAllSignatures
    /\ config.cacheThinking

\* A step that may change what getSignature returns for key k: a
\* setSignature that passes its guards on k, or a clearAll.
ChangesLatest(k) ==
    \/ \E m \in SigModelIds, sig \in WideSignatures, o \in Options :
         /\ modelKeyOf[m] = k
         /\ PassesGuards(m, sig, o)
         /\ \E c \in Contents :
              sigFiles' = setSignature(sigFiles, m, sig, c, o, TRUE)
    \/ \E deleted \in SUBSET SigKeys :
         sigFiles' = clearThoughtSignatureCaches(sigFiles, deleted)

\* What C5 says of each state: getSignature is absent for a model whose base
\* model has no stored history, and after a setSignature(m, sig, ..) that
\* passes its guards and whose write succeeds it returns signature sig.
LatestAfterSet ==
    \A m \in SigModelIds :
        /\ HistoryOf(m) = <<>> => ~getSignature(sigFiles, m).found
        /\ \A sig \in WideSignatures, c \in Contents, o \in Options :
             PassesGuards(m, sig, o)
               => LET after == setSignature(sigFiles, m, sig, c, o, TRUE) IN
                  /\ getSignature(after, m).found
                  /\ getSignature(after, m).signature = sig

\* C5: LatestAfterSet in every state, and the signature getSignature returns
\* for a model changes only in a step that is a guard-passing setSignature
\* on the same base model or a clearAll.
C5_LatestSignature ==
    /\ []LatestAfterSet
    /\ [][\/ sigFiles' = sigFiles
          \/ \A m \in SigModelIds :
            \/ getSignature(sigFiles, m)' = getSignature(sigFiles, m)
            \/ getSignature(sigFiles, m)'.signature
                  = getSignature(sigFiles, m).signature
               /\ getSignature(sigFiles, m)'.found
            \/ ChangesLatest(modelKeyOf[m])
         ]_vars

\* C5's case: s2 was pushed after s1 for the image model and is what
\* getSignature returns for it, while the other model has a history of its
\* own.
C5_Witness ==
    /\ SignaturesOf(sigFiles[ImageBase].signatures) = <<"s1", "s2">>
    /\ getSignature(sigFiles, ImageBase).signature = "s2"
    /\ getSignature(sigFiles, PathBase).signature = "s1"

\* The model ids that do not end in a resolution suffix, and the suffixes in
\* both letter cases.
BaseModelIds == {ImageBase, PathBase}

SuffixAtoms == {"-1k", "-2k", "-4k", "-8k", "-1K", "-2K", "-4K", "-8K"}

\* v is m followed by one resolution suffix.
IsVariantOf(v, m) ==
    /\ Len(v) = Len(m) + 1
    /\ SubSeq(v, 1, Len(m)) = m
    /\ v[Len(v)] \in SuffixAtoms

\* m with each character unsafe in a file name replaced by "_".
Sanitized(m) == [i \in 1..Len(m) |-> SanitizeAtom(m[i])]

C7_ContentGatedAtRead ==
    \A m \in SigModelIds :
        LET h == HistoryOf(m)
            g == getSignature(sigFiles, m)
        IN /\ Len(h) > 0
                => /\ g.found
                   /\ g.signature = h[Len(h)].signature
                   /\ ~config.cacheThinking => g.content = Placeholder
                   /\ config.cacheThinking => g.content = h[Len(h)].content
           /\ \A sig \in WideSignatures, c \in Contents, o \in Options :
                (/\ PassesGuards(m, sig, o)
                 /\ (Len(h) = 0 \/ h[Len(h)].signature # sig))
                  => LET r == readModelCache(
                                 setSignature(sigFiles, m, sig, c, o, TRUE),
                                 modelKeyOf[m])
                     IN r[Len(r)].content
                           = IF config.cacheThinking /\ c # "" THEN c
                             ELSE Placeholder

\* C7's case: the latest entry was written with its content while the
\* policy was on, the policy is off now, and getSignature returns the
\* placeholder.
C7_Witness ==
    /\ Len(sigFiles[ImageBase].signatures) = 2
    /\ sigFiles[ImageBase].signatures[2].content = "c1"
    /\ ~config.cacheThinking
    /\ getSignature(sigFiles, ImageBase).content = Placeholder

\* C8: setSignature leaves every file as it was when the signature or the
\* model is absent or the policies do not allow caching (PassesGuards is
\* false); in every other case the files after it are those after the push
\* of the entry on the base model's history, and no other history changes.
C8_SetSignatureGuards ==
    \A m \in SigModelIds \cup {<<>>}, sig \in WideSignatures \cup {""},
       c \in Contents, o \in Options, ok \in BOOLEAN :
        LET r == setSignature(sigFiles, m, sig, c, o, ok) IN
        IF PassesGuards(m, sig, o)
        THEN /\ r = pushEntry(sigFiles, modelKeyOf[m],
                              [signature |-> sig,
                               content |-> processThinkingContent(c)], ok)
             /\ \A k \in SigKeys \ {modelKeyOf[m]} : r[k] = sigFiles[k]
        ELSE r = sigFiles

\* C8's case: only the image policy is on, so that a call for the image
\* model is accepted and one for the other model is refused unless its
\* options say it is an image model; both have a history.
C8_Witness ==
    /\ ~config.cacheAllSignatures
    /\ ~config.cacheToolSignatures
    /\ config.cacheImageSignatures
    /\ SignaturesOf(sigFiles[ImageBase].signatures) = <<"s1", "s2">>
    /\ SignaturesOf(sigFiles[modelKeyOf[PathBase]].signatures) = <<"s2">>

(***************************************************************************)
(* Claims on the credential repository.                                    *)
(***************************************************************************)
\* C9: a readAll that starts after a writeAll(records) has completed (with
\* no other writer in flight then) and with no later write having started,
\* before it starts or while it runs, returns exactly records.
C9_ReadYourWrite ==
    \A s \in Slots :
        (calls[s].op = "readAll" /\ calls[s].pc = "returned"
            /\ calls[s].expectOk)
          => calls[s].ret = calls[s].expect

\* The records of the working set of a mergeActiveTokens call.
WorkingSet(activeTokens, tokenToUpdate) ==
    IF tokenToUpdate # NoRecord THEN {tokenToUpdate}
    ELSE {activeTokens[i] : i \in 1..Len(activeTokens)}

\* The document C10 describes, from the records old that are on disk.
MergedAsStated(old, working) ==
    [i \in 1..Len(old) |->
        IF \E w \in working : w.refresh_token = old[i].refresh_token
        THEN LET w == CHOOSE w \in working :
                          w.refresh_token = old[i].refresh_token
             IN [refresh_token |-> old[i].refresh_token,
                 access_token |-> IF w.access_token # Absent
                                  THEN w.access_token
                                  ELSE old[i].access_token,
                 enable |-> IF w.enable # Absent THEN w.enable
                            ELSE old[i].enable,
                 sessionId |-> old[i].sessionId]
        ELSE old[i]]

\* C10: a mergeActiveTokens that ran with no other call in flight has
\* written the records that were on disk when it started, those matching a
\* working-set record overlaid with its fields except sessionId, the others
\* unchanged, in the same order and number.
C10_MergeAlone ==
    \A s \in Slots :
        (calls[s].op = "merge" /\ calls[s].alone
            /\ calls[s].pc \in {"w_writeDone", "returned"})
          => accountsFile.tokens
                = MergedAsStated(calls[s].old,
                                 WorkingSet(calls[s].activeTokens,
                                            calls[s].tokenToUpdate))

\* C11: every getSalt call returns the same value and every write of the
\* document stores that value: once the document holds a salt, no step
\* changes it, and a getSalt that has returned has returned the salt of the
\* document.
C11_OneSalt ==
    /\ [](\A s \in Slots :
            (calls[s].op = "getSalt" /\ calls[s].pc = "returned")
              => calls[s].salt = accountsFile.salt)
    /\ [][accountsFile.salt # NoSalt
            => accountsFile'.salt = accountsFile.salt]_vars

\* C12: readAll never raises an error to its caller, whatever fails while
\* the document is prepared or read.
C12_ReadAllNeverRaises ==
    \A s \in Slots : ~(calls[s].op = "readAll" /\ calls[s].pc = "raised")

WorkingKeys(s) ==
    {w.refresh_token : w \in WorkingSet(calls[s].activeTokens,
                                        calls[s].tokenToUpdate)}

\* C22: when the writeFile of a mergeActiveTokens call takes effect, every
\* record that is on disk right before it and whose refresh_token is not in
\* the call's working set is on disk, with the same value, right after it.
C22_MergeFrame ==
    [][\A s \in Slots :
         (calls[s].op = "merge" /\ WriteFile(s))
           => \A i \in 1..Len(accountsFile.tokens) :
                accountsFile.tokens[i].refresh_token \notin WorkingKeys(s)
                  => \E j \in 1..Len(accountsFile'.tokens) :
                       accountsFile'.tokens[j] = accountsFile.tokens[i]]_vars

\* The refresh_token identity keys of a sequence of records.
KeysOf(tokens) == {tokens[i].refresh_token : i \in 1..Len(tokens)}

\* C23: after a mergeActiveTokens call that ran with no other call in
\* flight, whatever its arguments and whether or not reading the document
\* failed or found it malformed, the identity keys on disk are those that
\* were on disk when the call started.
C23_MergeKeepsKeySet ==
    \A s \in Slots :
        (calls[s].op = "merge" /\ calls[s].alone
            /\ calls[s].pc \in {"w_writeDone", "returned", "raised"})
          => KeysOf(accountsFile.tokens) = KeysOf(calls[s].old)

(***************************************************************************)
(* Further claims on the cooldown registry.                                *)
(***************************************************************************)
\* The until of the entry of (id, k) in memory; 0 when there is none.
EntryUntil(id, k) == IF cooldowns[id].has THEN cooldowns[id].g[k] ELSE 0

\* C13: the result of getAllCooldowns holds exactly the pairs (credential,
\* family) whose entry has until strictly greater than the current time,
\* each with that until; and a getAllCooldowns call changes neither the map
\* in memory (expired entries stay) nor the persisted document.
C13_ListAllIsPure ==
    /\ [](\A id \in TokenIds, k \in MODEL_GROUPS :
            /\ getAllCooldowns[id][k] # 0 <=> EntryUntil(id, k) > now
            /\ getAllCooldowns[id][k] # 0
                  => getAllCooldowns[id][k] = EntryUntil(id, k))
    /\ [][GetAllCooldownsCall
            => cooldowns' = cooldowns /\ cdFile' = cdFile]_vars

\* C13's case: an entry whose until is the current time is in memory and
\* is not in the result.
C13_Witness ==
    /\ now = 2
    /\ EntryUntil("t1", "gemini") = 2
    /\ getAllCooldowns["t1"]["gemini"] = 0

\* Model ids to classify: every text of up to MaxAtoms of these atoms.
MaxAtoms == 3

ClassifyAtoms ==
    { "claude", "CLAUDE", "gemini", "Gemini", "-3-pro-", "image", "Image",
      "publishers/google/", "text-bison" }

ClassifyIds ==
    UNION { [1..n -> ClassifyAtoms] : n \in 0..MaxAtoms }

\* The family of C14 as stated: three substring checks.
FamilyAsStated(id) ==
    LET lower == toLowerCase(id) IN
    CASE includes(lower, <<"claude">>) -> "claude"
      [] ~includes(lower, <<"claude">>)
           /\ includes(lower, <<"gemini", "-3-pro-", "image">>) -> "banana"
      [] ~includes(lower, <<"claude">>)
           /\ ~includes(lower, <<"gemini", "-3-pro-", "image">>)
           /\ includes(lower, <<"gemini">>) -> "gemini"
      [] OTHER -> "other"

\* The family with the fourth check the code has.
FamilyWithPath(id) ==
    IF FamilyAsStated(id) = "other"
          /\ includes(toLowerCase(id), <<"publishers/google/">>)
    THEN "gemini"
    ELSE FamilyAsStated(id)

\* getGroupKey agrees on every id with the description that has the fourth
\* check, and with the description as stated.
AgreesWithPath ==
    \A id \in ClassifyIds :
        getGroupKey(id) \in MODEL_GROUPS /\ getGroupKey(id) = FamilyWithPath(id)

AgreesAsStated ==
    \A id \in ClassifyIds : getGroupKey(id) = FamilyAsStated(id)

\* C14 (as the code has it): the family is a total function of the model
\* id, decided case-insensitively in this order: 'claude' if the id contains
\* "claude"; otherwise 'banana' if it contains "gemini-3-pro-image";
\* otherwise 'gemini' if it contains "gemini" or "publishers/google/";
\* otherwise 'other' (also for an absent id); and the entry the registry
\* consults for a model id is that of this family.
C14_FamilyClassification ==
    /\ \A m \in CooldownModelIds, t \in TokenIds :
         getCooldownUntil(t, m)
            = IF EntryUntil(t, FamilyWithPath(m)) > now
              THEN EntryUntil(t, FamilyWithPath(m)) ELSE 0
    /\ AgreesWithPath

\* C14's case: a cooldown was set for a "publishers/google/" model without
\* "gemini" in its id, and is kept under the family 'gemini'.
C14_Witness ==
    /\ getGroupKey(<<"publishers/google/", "text-bison">>) = "gemini"
    /\ EntryUntil("t2", "gemini") = 2
    /\ getCooldownUntil("t2", <<"publishers/google/", "text-bison">>) = 2

\* C14 as stated: three checks decide the family, and the registry consults
\* the entry of the family they give.
C14_ThreeChecks ==
    /\ \A m \in CooldownModelIds, t \in TokenIds :
         getCooldownUntil(t, m)
            = IF EntryUntil(t, FamilyAsStated(m)) > now
              THEN EntryUntil(t, FamilyAsStated(m)) ELSE 0
    /\ AgreesAsStated

\* What C16 says of a clearCooldown(t, m) step: the pair is Available
\* afterwards, the document is rewritten exactly if the pair had an entry,
\* and afterwards holds no entry for the pair.
ClearCooldownReleases(t, m) ==
    LET k == groupKeyOf[m] IN
    /\ isAvailableRet(t, m)'
    /\ getCooldownUntil(t, m)' = 0
    /\ IF EntryUntil(t, k) > 0
       THEN cdFile' = SavedDoc(cooldowns', now)
       ELSE cdFile' = cdFile /\ cooldowns' = cooldowns
    /\ cdFile'[t].g[k] = 0

\* What holds of every clearAllCooldowns(t) step: every family of t is
\* Available afterwards, the other credentials' entries are unchanged, and
\* the document holds no entry of t.
ClearAllReleases(t) ==
    /\ \A m \in CooldownModelIds :
         isAvailableRet(t, m)' /\ getCooldownUntil(t, m)' = 0
    /\ \A k \in MODEL_GROUPS : EntryUntil(t, k)' = 0
    /\ \A o \in TokenIds \ {t} : cooldowns'[o] = cooldowns[o]
    /\ cdFile'[t] = NoGroups

\* C16 (as the code has it): ClearCooldownReleases and ClearAllReleases of
\* every such step, and clearAllCooldowns(t) rewrites the document exactly if
\* t is in the in-memory map, also when every entry of t is already absent.
C16_ExplicitRelease ==
    [][\A t \in TokenIds :
         /\ \A m \in CooldownModelIds :
              clearCooldown(t, m) => ClearCooldownReleases(t, m)
         /\ clearAllCooldowns(t)
              => /\ ClearAllReleases(t)
                 /\ IF cooldowns[t].has
                    THEN cdFile' = SavedDoc(cooldowns', now)
                    ELSE cdFile' = cdFile]_vars

\* C16's case: t1 is in the map with no entry left, t2's only entry has
\* expired in memory and is still in the document: a clearAllCooldowns(t1)
\* rewrites the document although t1 has no entry to clear.
C16_Witness ==
    /\ cooldowns["t1"] = EmptyGroups
    /\ EntryUntil("t2", "claude") = 2
    /\ now = 2
    /\ cdFile["t2"].g["claude"] = 2

\* C16 as stated: clearAllCooldowns(t) rewrites the document if and only if
\* t had an entry to clear.
C16_RewrittenIffEntryExisted ==
    [][\A t \in TokenIds :
         clearAllCooldowns(t)
           => IF \E k \in MODEL_GROUPS : EntryUntil(t, k) > 0
              THEN cdFile' = SavedDoc(cooldowns', now)
              ELSE cdFile' = cdFile]_vars

\* The map of a registry constructed now from the persisted document:
\* loadFromFile, then the sweep of _cleanupExpired.
FreshMap == Swept(Loaded(cdFile), now)

\* The answers of that registry: getCooldownUntil (0 is absent) and
\* isAvailable.
FreshUntil(t, m) ==
    LET until == FreshMap[t].g[groupKeyOf[m]] IN
    IF FreshMap[t].has /\ until > now THEN until ELSE 0

FreshAvailable(t, m) ==
    ~FreshMap[t].has \/ FreshMap[t].g[groupKeyOf[m]] = 0
       \/ FreshMap[t].g[groupKeyOf[m]] <= now

\* C17: in every reachable state a registry constructed from the persisted
\* document gives, for every credential and model id, the answers of the
\* running registry.
C17_SurvivesRestart ==
    \A t \in TokenIds, m \in CooldownModelIds :
        /\ FreshAvailable(t, m) = isAvailableRet(t, m)
        /\ FreshUntil(t, m) = getCooldownUntil(t, m)

\* C17's case: memory and document differ (t1 is in the map with no entry
\* and not in the document) while a cooldown set in this run is live in
\* both.
C17_Witness ==
    /\ now = 1
    /\ EntryUntil("t2", "claude") = 2
    /\ cdFile["t2"].g["claude"] = 2
    /\ cooldowns["t1"] = EmptyGroups
    /\ cdFile["t1"] = NoGroups

\* C19: setCooldown(t, m, u) with a present credential and deadline replaces
\* the entry of the pair whatever it was: the entry is u afterwards,
\* getCooldownUntil returns u when u is later than the current time and
\* absent otherwise, and the persisted document holds u for the pair exactly
\* when u is later than the current time; with the credential or the
\* deadline absent it changes neither the map nor the document.
C19_LastWriterWins ==
    [][\A t \in TokenIds \cup {NoToken}, m \in CooldownModelIds, u \in Untils :
         setCooldown(t, m, u) /\ now' = now
           => IF t = NoToken \/ u = 0
              THEN cooldowns' = cooldowns /\ cdFile' = cdFile
              ELSE /\ EntryUntil(t, groupKeyOf[m])' = u
                   /\ getCooldownUntil(t, m)' = IF u > now THEN u ELSE 0
                   /\ cdFile'[t].g[groupKeyOf[m]] = IF u > now THEN u ELSE 0]_vars

\* C19's case: from the start, where t1's gemini entry is the only one and
\* cools until 2, the entry has been replaced by an expired deadline for the
\* gemini family and the claude family, cooling until 3, has been cut back
\* to 2.
C19_Witness ==
    /\ now = 1
    /\ EntryUntil("t1", "gemini") = 1
    /\ getCooldownUntil("t1", <<"gemini", "-pro">>) = 0
    /\ EntryUntil("t1", "claude") = 2
    /\ cdFile["t1"].g["claude"] = 2
    /\ cdFile["t1"].g["gemini"] = 0

\* Document doc holds only entries with until later than t, and no
\* credential without an entry.
DocFresh(doc, t) ==
    \A id \in TokenIds :
        /\ doc[id].has <=> \E k \in MODEL_GROUPS : doc[id].g[k] > 0
        /\ \A k \in MODEL_GROUPS : doc[id].g[k] = 0 \/ doc[id].g[k] > t

\* C20: when construction has finished, neither the map nor the document
\* holds an entry with until at or before the startup time, and the document
\* never holds one later; and every document a handler writes (setCooldown
\* with credential and deadline present, clearCooldown of a pair with an
\* entry, clearAllCooldowns of a credential in the map, and any other step
\* that changes the document) holds only entries with until later than the
\* time of the write and no credential without such an entry.
C20_WrittenDocumentsAreLive ==
    /\ DocFresh(cdFile, StartTime)
    /\ \A id \in TokenIds, k \in MODEL_GROUPS :
         EntryUntil(id, k) = 0 \/ EntryUntil(id, k) > StartTime
    /\ [](\A id \in TokenIds, k \in MODEL_GROUPS :
            cdFile[id].g[k] = 0 \/ cdFile[id].g[k] > StartTime)
    /\ [][/\ cdFile' # cdFile => DocFresh(cdFile', now)
          /\ \A t \in TokenIds, m \in CooldownModelIds :
               /\ \A u \in Untils \ {0} :
                    setCooldown(t, m, u) /\ now' = now
                      => DocFresh(cdFile', now)
               /\ clearCooldown(t, m) /\ EntryUntil(t, groupKeyOf[m]) # 0
                    => DocFresh(cdFile', now)
               /\ clearAllCooldowns(t) /\ cooldowns[t].has
                    => DocFresh(cdFile', now)]_vars

\* C20's case: the startup sweep has removed t1's expired claude entry from
\* map and document, and a write at time 2 has left t1's gemini entry,
\* expired by then and still in the map, out of the document.
C20_Witness ==
    /\ now = 2
    /\ EntryUntil("t1", "claude") = 0
    /\ EntryUntil("t1", "gemini") = 2
    /\ cdFile["t1"] = NoGroups
    /\ cdFile["t2"].g["claude"] = 3

\* C21: in every reachable state, for every credential and model id,
\* isAvailable returns false exactly when getCooldownUntil returns a
\* deadline, and exactly when the result of getAllCooldowns has an entry for
\* the credential and the family of the model id; an entry whose until is
\* the current time is expired for all three.
C21_ReadSurfacesAgree ==
    \A t \in TokenIds, m \in CooldownModelIds :
        /\ ~isAvailableRet(t, m) <=> getCooldownUntil(t, m) # 0
        /\ getCooldownUntil(t, m) # 0
             <=> getAllCooldowns[t][groupKeyOf[m]] # 0
        /\ EntryUntil(t, groupKeyOf[m]) = now
             => /\ isAvailableRet(t, m)
                /\ getCooldownUntil(t, m) = 0
                /\ getAllCooldowns[t][groupKeyOf[m]] = 0

\* C21's case: at time 2 the map holds an entry whose until is 2, which all
\* three report as expired, next to one cooling until 3, which all three
\* report.
C21_Witness ==
    /\ now = 2
    /\ EntryUntil("t1", "gemini") = 2
    /\ isAvailableRet("t1", <<"gemini", "-pro">>)
    /\ EntryUntil("t2", "claude") = 3
    /\ ~isAvailableRet("t2", <<"claude", "-3-opus">>)
    /\ getAllCooldowns["t2"]["claude"] = 3

\* isAvailable(t, m) observes an expired entry in the current state.
ObservesExpired(t, m) ==
    /\ t # NoToken
    /\ EntryUntil(t, groupKeyOf[m]) # 0
    /\ EntryUntil(t, groupKeyOf[m]) <= now

\* C24: an isAvailable(t, m) step that observes an entry with until at or
\* before the current time returns true, sets that entry (and no other) to
\* absent and rewrites the document from the map; a step that observes an
\* absent credential, an absent entry or a live entry changes neither the
\* map nor the document; and a getCooldownUntil step changes neither.
C24_SelfHealingCheck ==
    [][/\ \A t \in TokenIds \cup {NoToken}, m \in CooldownModelIds :
            isAvailable(t, m) /\ now' = now
              => IF ObservesExpired(t, m)
                 THEN /\ isAvailableRet(t, m)
                      /\ cooldowns' = [cooldowns EXCEPT
                                         ![t].g[groupKeyOf[m]] = 0]
                      /\ cdFile' = SavedDoc(cooldowns', now)
                      /\ cdFile'[t].g[groupKeyOf[m]] = 0
                 ELSE cooldowns' = cooldowns /\ cdFile' = cdFile
       /\ GetCooldownUntilCall
            => cooldowns' = cooldowns /\ cdFile' = cdFile]_vars

\* C24's case: at time 2 t1's gemini entry, which expired at 2, has been
\* set to absent and the document rewritten: it no longer holds t2's claude
\* entry, which has expired too and is still in the map.
C24_Witness ==
    /\ now = 2
    /\ cooldowns["t1"] = EmptyGroups
    /\ cdFile["t1"] = NoGroups
    /\ EntryUntil("t2", "claude") = 2
    /\ cdFile["t2"] = NoGroups

(***************************************************************************)
(* Further claims on the signature cache.                                  *)
(***************************************************************************)

\* The directory after a clearThoughtSignatureCaches in which no unlink
\* failed.
Cleared == clearThoughtSignatureCaches(sigFiles, SigKeys)

\* C18: after clearThoughtSignatureCaches without a file-system error no
\* history file remains and getSignature is absent for every model id, and
\* this stays so under every setSignature that is not accepted (its guards
\* fail or its write fails); an accepted one ends it.
C18_ClearAllForgets ==
    /\ \A k \in SigKeys : ~Cleared[k].exists
    /\ \A m \in SigModelIds \cup {<<>>} : ~getSignature(Cleared, m).found
    /\ \A m \in SigModelIds \cup {<<>>}, sig \in WideSignatures \cup {""},
         c \in Contents, o \in Options :
           /\ ~PassesGuards(m, sig, o)
                => setSignature(Cleared, m, sig, c, o, TRUE) = Cleared
           /\ setSignature(Cleared, m, sig, c, o, FALSE) = Cleared
           /\ PassesGuards(m, sig, o)
                => getSignature(setSignature(Cleared, m, sig, c, o, TRUE),
                                m).signature = sig

\* C18's case: both base models have a stored history for the clear to
\* remove, and getSignature finds a signature for each.
C18_Witness ==
    /\ \A k \in SigKeys : sigFiles[k].exists
    /\ \A m \in SigModelIds : getSignature(sigFiles, m).found

=============================================================================
